---- MODULE Spec2Model ----
(***************************************************************************)
(* Model of src/win32/path_w32.c: prefix classification, in-place path     *)
(* canonicalization, text <-> native path conversion, reparse point        *)
(* resolution and directory listing.                                       *)
(*                                                                         *)
(* Characters are one-character strings; NUL is the empty string.  A       *)
(* buffer is a sequence of characters; C offsets are 0-based, so At(p, i)  *)
(* reads p[i] of the C code.                                               *)
(***************************************************************************)
EXTENDS Integers, Sequences, FiniteSets, TLC

VARIABLES
    input,      \* canonicalizer: the path handed to the first pass (ghost)
    path,       \* canonicalizer: the git_win32_path buffer, NUL included
    base,       \* canonicalizer: wchar_t *base (offset into path)
    from,       \* canonicalizer: wchar_t *from
    to,         \* canonicalizer: wchar_t *to
    pc,         \* canonicalizer: position in git_win32_path_canonicalize
    pass,       \* canonicalizer: 1 = first call, 2 = call on its own output
    root,       \* canonicalizer: what path__skip_prefix returned in this call
    entry,      \* canonicalizer: buffer contents when this call started
    first,      \* canonicalizer: [str, len] the first call produced
    ret,        \* canonicalizer: the value returned by the last finished call
    text,       \* conversion: the caller's UTF-8 path (const char *src)
    cwd,        \* conversion: what GetCurrentDirectoryW reports, or NoCwd
    wide,       \* conversion: [ret, out] of git_win32_path_from_utf8, or a
                \*   native path the caller supplies
    utf8,       \* conversion: [ret, dest] of git_win32_path_to_utf8
    origin,     \* conversion: "text" when wide was built from text
    cpc,        \* conversion: position of the caller
    overrun,    \* the buffers that were written at or beyond their capacity
    repo_path,  \* listing: path + prefix_len, the text put before each name
    start_stat, \* listing: lower bound of the range, or NULL_STR
    end_stat,   \* listing: upper bound of the range, or NULL_STR
    ignore_case, \* listing: flags & GIT_PATH_DIR_IGNORE_CASE
    listing,    \* listing: the entries the directory enumeration yields
    outcome,    \* listing: how the native calls of this run behave
    dir,        \* listing: DIR *dir: [ptr, h], ptr "uninit" before calloc
    scan,       \* listing: index in listing of the entry held in dir->f
    error,      \* listing: int error
    contents,   \* listing: the caller's git_vector
    work_path,  \* listing: the C string held in work_path
    allocated,  \* listing: number of entry records allocated
    freed,      \* listing: number of entry records freed
    unresolved, \* listing: reparse-tagged entries whose link did not resolve
    acquired,   \* native handles successfully acquired, in order
    released,   \* native handles passed to FindClose / CloseHandle, in order
    dpc         \* listing: position in git_win32_path_dirload_with_stat

canonVars == <<input, path, base, from, to, pc, pass, root, entry, first, ret>>

convVars == <<text, cwd, wide, utf8, origin, cpc>>

dirVars == <<repo_path, start_stat, end_stat, ignore_case, listing, outcome,
             dir, scan, error, contents, work_path, allocated, freed,
             unresolved, acquired, released, dpc>>

vars == <<canonVars, convVars, overrun, dirVars>>

---------------------------------------------------------------------------
(* Bounds of the model *)

\* number of tokens (separator, ".", "..", name) after the prefix of an input
MaxBody == 4

\* number of tokens after the prefix of a text path
MaxText == 3

\* MAX_PATH of the Windows headers is 260; the model runs with a small value
MAX_PATH == 10

\* number of entries a directory enumeration yields
MaxEntries == 2

\* capacity of work_path; the source sets 32767, the model runs with a
\* small value
PATH__MAX_UNC_LEN == 4

---------------------------------------------------------------------------
(* Characters and buffers *)

NUL == ""

PATH__NT_NAMESPACE_LEN == 4

PATH__ABSOLUTE_LEN == 3

\* PATH__NT_NAMESPACE, L"\\\\?\\"
PATH__NT_NAMESPACE == <<"\\", "\\", "?", "\\">>

\* L"UNC\\"
UNC_MARKER == <<"U", "N", "C", "\\">>

At(p, i) == p[i + 1]

Dot == <<".">>

DotDot == <<".", ".">>

\* p with p[i] = c
Put(p, i, c) == [p EXCEPT ![i + 1] = c]

\* the C string held in buffer p from offset o: everything before the first NUL
RECURSIVE CStrFrom(_, _)
CStrFrom(p, o) ==
    IF o >= Len(p) \/ At(p, o) = NUL THEN <<>>
    ELSE <<At(p, o)>> \o CStrFrom(p, o + 1)

CStr(p) == CStrFrom(p, 0)

\* git__isalpha over the letters the model uses
git__isalpha(c) == c \in {"a", "b", "c", "s", "x", "C", "U", "N"}

path__is_dirsep(c) == c = "/" \/ c = "\\"

path__is_absolute(p, o) ==
    /\ git__isalpha(At(p, o))
    /\ At(p, o + 1) = ":"
    /\ (At(p, o + 2) = "\\" \/ At(p, o + 2) = "/")

path__is_nt_namespace(p, o) ==
    \/ (At(p, o) = "\\" /\ At(p, o + 1) = "\\" /\ At(p, o + 2) = "?" /\ At(p, o + 3) = "\\")
    \/ (At(p, o) = "/" /\ At(p, o + 1) = "/" /\ At(p, o + 2) = "?" /\ At(p, o + 3) = "/")

path__is_unc(p, o) ==
    \/ (At(p, o) = "\\" /\ At(p, o + 1) = "\\")
    \/ (At(p, o) = "/" /\ At(p, o + 1) = "/")

\* wcsncmp(p + o, lit, Len(lit)) == 0, lit without NUL inside
RECURSIVE wcsncmp_eq(_, _, _)
wcsncmp_eq(p, o, lit) ==
    IF lit = <<>> THEN TRUE
    ELSE /\ At(p, o) = Head(lit)
         /\ wcsncmp_eq(p, o + 1, Tail(lit))

---------------------------------------------------------------------------
(* PrefixClassifier *)

\* path__skip_server stopping at the separator instead of after it
RECURSIVE path__skip_server_AtSep(_, _)
path__skip_server_AtSep(p, c) ==
    IF At(p, c) = NUL THEN c
    ELSE IF path__is_dirsep(At(p, c)) THEN c
    ELSE path__skip_server_AtSep(p, c + 1)

RECURSIVE path__skip_server(_, _)
path__skip_server(p, c) ==
    IF At(p, c) = NUL THEN c
    ELSE IF path__is_dirsep(At(p, c)) THEN c + 1
    ELSE path__skip_server(p, c + 1)

path__skip_prefix(p) ==
    IF path__is_nt_namespace(p, 0) THEN
        IF wcsncmp_eq(p, PATH__NT_NAMESPACE_LEN, UNC_MARKER)
        THEN path__skip_server(p, PATH__NT_NAMESPACE_LEN + 4)
        ELSE IF path__is_absolute(p, PATH__NT_NAMESPACE_LEN)
        THEN PATH__NT_NAMESPACE_LEN + PATH__ABSOLUTE_LEN
        ELSE PATH__NT_NAMESPACE_LEN
    ELSE IF path__is_absolute(p, 0) THEN PATH__ABSOLUTE_LEN
    ELSE IF path__is_unc(p, 0) THEN path__skip_server(p, 2)
    ELSE 0

---------------------------------------------------------------------------
(* PathCanonicalizer: git_win32_path_canonicalize, one loop iteration per  *)
(* step.  A canonicalizer state is [path, base, from, to, pc].             *)

\* "Unposixify if the prefix": '/' -> '\\' in path[0 .. b)
UnposixifyPrefix(p, b) ==
    [i \in 1..Len(p) |-> IF i - 1 < b /\ p[i] = "/" THEN "\\" ELSE p[i]]

\* the for (next = from; *next; ++next) scan: [next, path]
RECURSIVE ScanNext(_, _)
ScanNext(p, n) ==
    IF At(p, n) = NUL THEN [next |-> n, path |-> p]
    ELSE IF At(p, n) = "/" THEN [next |-> n, path |-> Put(p, n, "\\")]
    ELSE IF At(p, n) = "\\" THEN [next |-> n, path |-> p]
    ELSE ScanNext(p, n + 1)

\* the same loop with the base test left out
RECURSIVE BackOverSeps_NoBase(_, _, _)
BackOverSeps_NoBase(p, b, t) ==
    IF t > 0 /\ At(p, t - 1) = "\\" THEN BackOverSeps_NoBase(p, b, t - 1) ELSE t

\* while (to > base && to[-1] == L'\\') to--;
RECURSIVE BackOverSeps(_, _, _)
BackOverSeps(p, b, t) ==
    IF t > b /\ At(p, t - 1) = "\\" THEN BackOverSeps(p, b, t - 1) ELSE t

\* while (to > base && to[-1] != L'\\') to--;
RECURSIVE BackOverName(_, _, _)
BackOverName(p, b, t) ==
    IF t > b /\ At(p, t - 1) # "\\" THEN BackOverName(p, b, t - 1) ELSE t

\* "back up a path segment"
BackUpSegment(p, b, t) == BackOverName(p, b, BackOverSeps(p, b, t))

\* memmove(p + t, p + f, len)
memmove(p, t, f, len) ==
    [i \in 1..Len(p) |->
        IF i - 1 >= t /\ i - 1 < t + len THEN p[i - t + f] ELSE p[i]]

\* while (*from == L'\\') from++;
RECURSIVE SkipBackslashes(_, _)
SkipBackslashes(p, f) ==
    IF At(p, f) = "\\" THEN SkipBackslashes(p, f + 1) ELSE f

\* base = to = path__skip_prefix(path); the prefix loop leaves from = to
CanonStart(p) ==
    LET b == path__skip_prefix(p)
    IN [path |-> UnposixifyPrefix(p, b), base |-> b, from |-> b, to |-> b,
        pc |-> "loop"]

\* one iteration of while (*from) { ... }
CanonIterate(st) ==
    LET sc   == ScanNext(st.path, st.from)
        p1   == sc.path
        next == sc.next
        len0 == next - st.from
        f    == st.from
    IN  IF len0 = 1 /\ At(p1, f) = "."
        THEN [st EXCEPT !.path = p1, !.from = SkipBackslashes(p1, f + len0)]
        ELSE IF len0 = 2 /\ At(p1, f) = "." /\ At(p1, f + 1) = "."
        THEN IF st.to = st.base
             THEN LET len == IF At(p1, next) = "\\" THEN len0 + 1 ELSE len0
                  IN [st EXCEPT !.path = p1, !.base = st.to,
                                !.from = SkipBackslashes(p1, f + len)]
             ELSE [st EXCEPT !.path = p1,
                             !.to = BackUpSegment(p1, st.base, st.to),
                             !.from = SkipBackslashes(p1, f + len0)]
        ELSE LET len == IF At(p1, next) = "\\" /\ At(p1, f) # "\\"
                        THEN len0 + 1 ELSE len0
                 p2  == IF st.to # f THEN memmove(p1, st.to, f, len) ELSE p1
             IN [st EXCEPT !.path = p2, !.to = st.to + len,
                           !.from = SkipBackslashes(p2, f + len)]

\* the end of the function without the strip loop
CanonFinish_NoStrip(st) ==
    [st EXCEPT !.path = Put(st.path, st.to, NUL), !.pc = "done"]

\* "Strip trailing backslashes", *to = L'\0'
CanonFinish(st) ==
    LET t == BackOverSeps(st.path, st.base, st.to)
    IN [st EXCEPT !.path = Put(st.path, t, NUL), !.to = t, !.pc = "done"]

CanonStep(st) ==
    IF At(st.path, st.from) # NUL THEN CanonIterate(st) ELSE CanonFinish(st)

RECURSIVE CanonRun(_)
CanonRun(st) == IF st.pc = "done" THEN st ELSE CanonRun(CanonStep(st))

\* the whole call: [path |-> buffer afterwards, len |-> returned length]
git_win32_path_canonicalize(p) ==
    LET st == CanonRun(CanonStart(p))
    IN [path |-> st.path, len |-> st.to]

---------------------------------------------------------------------------
(* Inputs of the canonicalizer: a prefix form followed by up to MaxBody    *)
(* tokens.                                                                 *)

BodyTokens == {<<"/">>, <<"\\">>, <<".">>, <<".", ".">>, <<"a">>}

RECURSIVE Flatten(_)
Flatten(ts) == IF ts = <<>> THEN <<>> ELSE Head(ts) \o Flatten(Tail(ts))

Bodies == {Flatten(ts) : ts \in UNION {[1..n -> BodyTokens] : n \in 0..MaxBody}}

Prefixes ==
    { <<>>,
      <<"C", ":", "\\">>, <<"C", ":", "/">>,
      <<"\\", "\\", "?", "\\">>, <<"/", "/", "?", "/">>, <<"\\", "\\", "?", "/">>,
      <<"\\", "\\", "?", "\\", "C", ":", "\\">>, <<"/", "/", "?", "/", "C", ":", "/">>,
      <<"\\", "\\", "?", "\\", "C", ":", "/">>,
      <<"\\", "\\", "?", "\\", "U", "N", "C", "\\", "s", "\\">>,
      <<"/", "/", "?", "/", "U", "N", "C", "/", "s", "/">>,
      <<"\\", "\\", "?", "\\", "U", "N", "C", "\\", "s", "/">>,
      <<"\\", "\\", "s", "\\">>, <<"/", "/", "s", "/">>, <<"\\", "\\", "s", "/">>,
      <<"/", "\\", "s", "\\">> }

\* the examples of the specification's "Segment collapse" property
ExamplePaths ==
    { <<"a", "/", ".", "/", "b", "/", ".", ".", "/", "c">>,
      <<"/", "a", "/", ".", ".", "/", ".", ".", "/", "b">> }

NativePaths == {pre \o b : pre \in Prefixes, b \in Bodies} \cup ExamplePaths

---------------------------------------------------------------------------
(* The canonicalizer as a state machine *)

CanonState == [path |-> path, base |-> base, from |-> from, to |-> to, pc |-> pc]

SetCanon(st) ==
    /\ path' = st.path
    /\ base' = st.base
    /\ from' = st.from
    /\ to' = st.to
    /\ pc' = st.pc

NoCwd == <<"?">>

NoResult == [ret |-> -1, out |-> <<>>]

IdleConv ==
    /\ text = <<>>
    /\ cwd = NoCwd
    /\ wide = NoResult
    /\ utf8 = NoResult
    /\ origin = "none"
    /\ cpc = "idle"

NULL_STR == <<"NULL">>

\* handles are named [kind, number]
FIND_HANDLE == <<"find", 0>>

INVALID_HANDLE_VALUE == <<"INVALID_HANDLE_VALUE", 0>>

\* what dir->h reads as when dir was never assigned
IndeterminateHandle == <<"indeterminate", 0>>

\* DIR *dir before dir = git__calloc(...)
UninitDir == [ptr |-> "uninit", h |-> IndeterminateHandle]

IdleDir ==
    /\ repo_path = <<>>
    /\ start_stat = NULL_STR
    /\ end_stat = NULL_STR
    /\ ignore_case = FALSE
    /\ listing = <<>>
    /\ outcome = "none"
    /\ dir = UninitDir
    /\ scan = 0
    /\ error = 0
    /\ contents = <<>>
    /\ work_path = <<>>
    /\ allocated = 0
    /\ freed = 0
    /\ unresolved = {}
    /\ acquired = <<>>
    /\ released = <<>>
    /\ dpc = "idle"

InitCanon ==
    /\ IdleConv
    /\ IdleDir
    /\ overrun = {}
    /\ input \in NativePaths
    /\ path = input \o <<NUL>>
    /\ base = 0 /\ from = 0 /\ to = 0
    /\ pc = "start"
    /\ pass = 1
    /\ root = 0
    /\ entry = path
    /\ first = [str |-> <<>>, len |-> 0]
    /\ ret = 0

\* base = to = path__skip_prefix(path) and the prefix loop
Classify ==
    /\ pc = "start"
    /\ SetCanon(CanonStart(path))
    /\ root' = path__skip_prefix(path)
    /\ entry' = path
    /\ UNCHANGED <<input, pass, first, ret, convVars, overrun, dirVars>>

\* one iteration of the segment loop
Segment ==
    /\ pc = "loop"
    /\ At(path, from) # NUL
    /\ SetCanon(CanonIterate(CanonState))
    /\ UNCHANGED <<input, pass, root, entry, first, ret, convVars, overrun,
                   dirVars>>

\* strip trailing backslashes, terminate, return
Finish ==
    /\ pc = "loop"
    /\ At(path, from) = NUL
    /\ SetCanon(CanonFinish(CanonState))
    /\ ret' = CanonFinish(CanonState).to
    /\ first' = IF pass = 1
                THEN [str |-> CStr(path'), len |-> ret']
                ELSE first
    /\ UNCHANGED <<input, pass, root, entry, convVars, overrun, dirVars>>

\* the caller hands the canonicalized buffer to the function again
Again ==
    /\ pc = "done"
    /\ pass = 1
    /\ pass' = 2
    /\ pc' = "start"
    /\ UNCHANGED <<input, path, base, from, to, root, entry, first, ret,
                   convVars, overrun, dirVars>>

NextCanon == Classify \/ Segment \/ Finish \/ Again

Spec == InitCanon /\ [][NextCanon]_vars

---------------------------------------------------------------------------
(* Text encodings.  A UTF-8 text is a sequence of bytes: an ASCII byte is   *)
(* its character, "xC3" "xA9" are the two bytes of U+00E9, whose UTF-16     *)
(* unit is "u00E9".  "uD800" is an unpaired surrogate.                      *)

\* MultiByteToWideChar(CP_UTF8, MB_ERR_INVALID_CHARS): [ok, units]
RECURSIVE Utf8Decode(_)
Utf8Decode(bytes) ==
    IF bytes = <<>> THEN [ok |-> TRUE, units |-> <<>>]
    ELSE IF Head(bytes) = "xC3"
    THEN IF Len(bytes) >= 2 /\ bytes[2] = "xA9"
         THEN LET r == Utf8Decode(SubSeq(bytes, 3, Len(bytes)))
              IN [ok |-> r.ok, units |-> <<"u00E9">> \o r.units]
         ELSE [ok |-> FALSE, units |-> <<>>]
    ELSE IF Head(bytes) = "xA9" THEN [ok |-> FALSE, units |-> <<>>]
    ELSE LET r == Utf8Decode(Tail(bytes))
         IN [ok |-> r.ok, units |-> <<Head(bytes)>> \o r.units]

\* WideCharToMultiByte(CP_UTF8, WC_ERR_INVALID_CHARS): [ok, bytes]
RECURSIVE Utf16Encode(_)
Utf16Encode(units) ==
    IF units = <<>> THEN [ok |-> TRUE, bytes |-> <<>>]
    ELSE IF Head(units) = "uD800" THEN [ok |-> FALSE, bytes |-> <<>>]
    ELSE LET r == Utf16Encode(Tail(units))
         IN [ok |-> r.ok,
             bytes |-> (IF Head(units) = "u00E9" THEN <<"xC3", "xA9">>
                        ELSE <<Head(units)>>) \o r.bytes]

\* git__utf8_to_16(dest, dest_size, src): [len, w]; w is what was written
\* before the terminator.  len = -1: malformed text or dest_size too small.
git__utf8_to_16(dest_size, src) ==
    LET d == Utf8Decode(src)
    IN IF ~d.ok \/ Len(d.units) + 1 > dest_size
       THEN [len |-> -1, w |-> <<>>]
       ELSE [len |-> Len(d.units), w |-> d.units]

\* git__utf16_to_8(dest, dest_size, src): [len, b, written].  With
\* dest_size = 0 nothing is written and the length needed is returned.
git__utf16_to_8(dest_size, src) ==
    LET e == Utf16Encode(src)
    IN IF ~e.ok THEN [len |-> -1, b |-> <<>>, written |-> 0]
       ELSE IF dest_size = 0 THEN [len |-> Len(e.bytes), b |-> <<>>, written |-> 0]
       ELSE IF Len(e.bytes) + 1 > dest_size THEN [len |-> -1, b |-> <<>>, written |-> 0]
       ELSE [len |-> Len(e.bytes), b |-> e.bytes, written |-> Len(e.bytes) + 1]

\* git_path_mkposix: every '\\' becomes '/'
git_path_mkposix(s) == [i \in 1..Len(s) |-> IF s[i] = "\\" THEN "/" ELSE s[i]]

\* capacity of a git_win32_path: MAX_PATH plus "\\?\UNC\" less the "\\" it
\* replaces
GIT_WIN_PATH_UTF16 == MAX_PATH + 6

\* capacity of a git_win32_utf8_path: three bytes per unit of a MAX_PATH
\* path, and the terminator
GIT_WIN_PATH_UTF8 == (MAX_PATH - 1) * 3 + 1

---------------------------------------------------------------------------
(* NativePathBuilder *)

\* path__cwd(path, size): [len, w], len = -1 on failure
path__cwd(size, curdir) ==
    IF curdir = NoCwd THEN [len |-> -1, w |-> <<>>]
    ELSE IF Len(curdir) + 1 > size THEN [len |-> -1, w |-> <<>>]
    ELSE IF ~wcsncmp_eq(curdir \o <<NUL>>, 0, PATH__NT_NAMESPACE)
    THEN [len |-> Len(curdir), w |-> curdir]
    ELSE [len |-> Len(curdir) - PATH__NT_NAMESPACE_LEN,
          w |-> SubSeq(curdir, PATH__NT_NAMESPACE_LEN + 1, Len(curdir))]

\* git_win32_path__cwd(out, len): [len, w]
git_win32_path__cwd(size, curdir) ==
    LET c == path__cwd(size, curdir)
    IN IF c.len < 0 THEN c
       ELSE IF wcsncmp_eq(c.w \o <<NUL>>, 0, <<"\\", "\\">>)
       THEN IF c.len > MAX_PATH - 4 THEN [len |-> -1, w |-> <<>>]
            ELSE [len |-> c.len + 2,
                  w |-> <<"U", "N", "C">> \o SubSeq(c.w, 2, Len(c.w))]
       ELSE IF c.len > MAX_PATH - 2 THEN [len |-> -1, w |-> <<>>]
       ELSE c

Failed == [ret |-> -1, out |-> <<>>, extent |-> 0]

\* the tail of git_win32_path_from_utf8: out holds head followed by the
\* conversion c; canonicalize it
BuildNative(head, c) ==
    IF c.len < 0 THEN Failed
    ELSE LET r == git_win32_path_canonicalize(head \o c.w \o <<NUL>>)
         IN [ret |-> r.len, out |-> r.path, extent |-> Len(head) + c.len + 1]

\* git_win32_path_from_utf8(out, src): [ret, out, extent]; extent is the
\* number of units of out the call wrote
git_win32_path_from_utf8(src, curdir) ==
    LET s == src \o <<NUL>>
    IN IF path__is_absolute(s, 0)
       THEN BuildNative(PATH__NT_NAMESPACE, git__utf8_to_16(MAX_PATH, src))
       ELSE IF path__is_nt_namespace(s, 0)
       THEN BuildNative(PATH__NT_NAMESPACE,
                git__utf8_to_16(MAX_PATH,
                    SubSeq(src, PATH__NT_NAMESPACE_LEN + 1, Len(src))))
       ELSE IF path__is_unc(s, 0)
       THEN BuildNative(PATH__NT_NAMESPACE \o UNC_MARKER,
                git__utf8_to_16(MAX_PATH - 2, SubSeq(src, 3, Len(src))))
       ELSE IF At(s, 0) = "\\" \/ At(s, 0) = "/"
       THEN LET c == path__cwd(MAX_PATH, curdir)
            IN IF c.len < 0 THEN Failed
               ELSE IF ~path__is_absolute(c.w \o <<NUL>>, 0) THEN Failed
               ELSE BuildNative(PATH__NT_NAMESPACE \o SubSeq(c.w, 1, 2),
                        git__utf8_to_16(MAX_PATH - 2, src))
       ELSE LET c == git_win32_path__cwd(MAX_PATH, curdir)
            IN IF c.len < 0 THEN Failed
               ELSE BuildNative(PATH__NT_NAMESPACE \o c.w \o <<"\\">>,
                        git__utf8_to_16(MAX_PATH - (c.len + 1), src))

\* a git_win32_path_to_utf8 that leaves the namespace marker in place
git_win32_path_to_utf8_KeepNs(src) ==
    LET c == git__utf16_to_8(GIT_WIN_PATH_UTF8, src)
    IN IF c.len < 0 THEN [ret |-> c.len, dest |-> <<>>, extent |-> 0]
       ELSE [ret |-> c.len, dest |-> git_path_mkposix(c.b), extent |-> c.written]

\* git_win32_path_to_utf8(dest, src): [ret, dest, extent]; extent is the
\* number of bytes of dest the call wrote
git_win32_path_to_utf8(src) ==
    LET s     == src \o <<NUL>>
        ns    == path__is_nt_namespace(s, 0)
        isunc == ns /\ wcsncmp_eq(s, 4, UNC_MARKER)
        skip  == IF isunc THEN 8 ELSE IF ns THEN 4 ELSE 0
        off   == IF isunc THEN 2 ELSE 0
        c     == git__utf16_to_8(GIT_WIN_PATH_UTF8, SubSeq(src, skip + 1, Len(src)))
    IN IF c.len < 0 THEN [ret |-> c.len, dest |-> <<>>, extent |-> off]
       ELSE [ret |-> c.len,
             dest |-> git_path_mkposix((IF isunc THEN <<"\\", "\\">> ELSE <<>>) \o c.b),
             extent |-> off + c.written]

---------------------------------------------------------------------------
(* Inputs of the conversions *)

E_ACUTE == <<"xC3", "xA9">>

Repeat(c, n) == [i \in 1..n |-> c]

TextTokens == {<<"/">>, <<"\\">>, <<".">>, <<"a">>, E_ACUTE, <<"xA9">>}

TextBodies == {Flatten(ts) : ts \in UNION {[1..n -> TextTokens] : n \in 0..MaxText}}

TextPrefixes ==
    { <<>>, <<"/">>, <<"\\">>,
      <<"C", ":", "/">>, <<"C", ":", "\\">>,
      <<"/", "/", "?", "/", "C", ":", "/">>, <<"\\", "\\", "?", "\\", "C", ":", "\\">>,
      <<"/", "/", "s", "/">>, <<"\\", "\\", "s", "\\">> }

\* texts about as long as the destination of the conversion
LongTexts ==
    {pre \o Repeat("a", n) :
        pre \in {<<"C", ":", "/">>, <<"/", "/">>, <<"/">>, <<>>},
        n \in (MAX_PATH - 6)..MAX_PATH}

Texts == {pre \o b : pre \in TextPrefixes, b \in TextBodies} \cup LongTexts

\* a current directory of n units on drive C
LongCwd(n) == <<"C", ":", "\\">> \o [i \in 1..(n - 3) |-> "d"]

Cwds ==
    { NoCwd,
      <<"C", ":", "\\", "d">>,
      <<"\\", "\\", "?", "\\", "C", ":", "\\", "d">>,
      <<"\\", "\\", "s", "\\", "h">>,
      LongCwd(MAX_PATH - 1) }

\* native paths a caller hands to git_win32_path_to_utf8 directly
WidePaths ==
    { pre \o Repeat(c, n) :
        pre \in { <<>>, PATH__NT_NAMESPACE, PATH__NT_NAMESPACE \o UNC_MARKER,
                  PATH__NT_NAMESPACE \o <<"C", ":", "\\">> },
        c \in {"a", "u00E9", "uD800"},
        n \in 0..GIT_WIN_PATH_UTF8 }

---------------------------------------------------------------------------
(* The conversions as a state machine: a caller converts a text path to a  *)
(* native path and back, or converts a native path it holds.               *)

IdleCanon ==
    /\ input = <<>>
    /\ path = <<NUL>>
    /\ base = 0 /\ from = 0 /\ to = 0
    /\ pc = "idle"
    /\ pass = 0
    /\ root = 0
    /\ entry = <<NUL>>
    /\ first = [str |-> <<>>, len |-> 0]
    /\ ret = 0

InitConv ==
    /\ IdleCanon
    /\ IdleDir
    /\ overrun = {}
    /\ utf8 = NoResult
    /\ \/ /\ cpc = "text"
          /\ origin = "text"
          /\ text \in Texts
          /\ cwd \in Cwds
          /\ wide = NoResult
       \/ /\ cpc = "native"
          /\ origin = "native"
          /\ text = <<>>
          /\ cwd = NoCwd
          /\ wide \in {[ret |-> Len(w), out |-> w \o <<NUL>>] : w \in WidePaths}

\* git_win32_path_from_utf8(out, text)
FromUtf8 ==
    /\ cpc = "text"
    /\ LET r == git_win32_path_from_utf8(text, cwd)
       IN /\ wide' = [ret |-> r.ret, out |-> r.out]
          /\ overrun' = IF r.extent > GIT_WIN_PATH_UTF16
                        THEN overrun \cup {"git_win32_path"} ELSE overrun
    /\ cpc' = "native"
    /\ UNCHANGED <<text, cwd, utf8, origin, canonVars, dirVars>>

\* git_win32_path_to_utf8(dest, wide)
ToUtf8 ==
    /\ cpc = "native"
    /\ wide.ret >= 0
    /\ LET r == git_win32_path_to_utf8(CStr(wide.out))
       IN /\ utf8' = [ret |-> r.ret, out |-> r.dest]
          /\ overrun' = IF r.extent > GIT_WIN_PATH_UTF8
                        THEN overrun \cup {"git_win32_utf8_path"} ELSE overrun
    /\ cpc' = "back"
    /\ UNCHANGED <<text, cwd, wide, origin, canonVars, dirVars>>

NextConv == FromUtf8 \/ ToUtf8

SpecConv == InitConv /\ [][NextConv]_vars

---------------------------------------------------------------------------
(* ReparsePointResolver *)

\* L"\\??\\Volume{"
VOLUME_PREFIX == <<"\\", "?", "?", "\\", "V", "o", "l", "u", "m", "e", "{">>

\* path_is_volume(target, target_len)
path_is_volume(target, target_len) ==
    target_len # 0 /\ wcsncmp_eq(target \o <<NUL>>, 0, VOLUME_PREFIX)

\* git_win32__canonicalize_path(target, target_len): "The path may need to
\* have a prefix removed"; returns the target without its \??\ prefix
git_win32__canonicalize_path(target) ==
    IF wcsncmp_eq(target \o <<NUL>>, 0, <<"\\", "?", "?", "\\">>)
    THEN SubSeq(target, 5, Len(target))
    ELSE target

NoLink == [open |-> FALSE, ioctl |-> FALSE, tag |-> "none", target |-> <<>>]

\* git_win32_path_readlink_w(dest, path) on a file whose native calls behave
\* as link says; h names the handle CreateFileW returns.
\* [ret, dest, acquired, released]
git_win32_path_readlink_w(link, h) ==
    IF ~link.open
    THEN [ret |-> -1, dest |-> <<>>, acquired |-> <<>>, released |-> <<>>]
    ELSE LET closed(r, d) == [ret |-> r, dest |-> d,
                              acquired |-> <<h>>, released |-> <<h>>]
         IN IF ~link.ioctl THEN closed(-1, <<>>)
            ELSE IF link.tag \notin {"IO_REPARSE_TAG_SYMLINK", "IO_REPARSE_TAG_MOUNT_POINT"}
            THEN closed(-1, <<>>)
            ELSE IF path_is_volume(link.target, Len(link.target))
            THEN closed(-1, <<>>)
            ELSE IF Len(link.target) # 0
            THEN LET t == git_win32__canonicalize_path(link.target)
                 IN IF GIT_WIN_PATH_UTF16 > Len(t)
                    THEN closed(Len(t), t)
                    ELSE closed(-1, <<>>)
            ELSE closed(-1, <<>>)

---------------------------------------------------------------------------
(* DirectoryLister *)

\* the characters of entry names and bounds, in code point order
OrderedChars == <<".", "/", "?", "B", "a", "b", "c", "d", "e", "l", "r">>

Ord(c) ==
    IF c = NUL THEN 0
    ELSE CHOOSE i \in 1..Len(OrderedChars) : OrderedChars[i] = c

ToLower(c) == IF c = "B" THEN "b" ELSE c

\* git__strncmp / git__strncasecmp (fold = TRUE): the sign of the first
\* difference in the first n characters, a string's end counting as NUL
RECURSIVE strncomp(_, _, _, _)
strncomp(a, b, n, fold) ==
    IF n = 0 THEN 0
    ELSE LET ca == IF a = <<>> THEN NUL ELSE IF fold THEN ToLower(Head(a)) ELSE Head(a)
             cb == IF b = <<>> THEN NUL ELSE IF fold THEN ToLower(Head(b)) ELSE Head(b)
         IN IF Ord(ca) # Ord(cb) THEN Ord(ca) - Ord(cb)
            ELSE IF ca = NUL THEN 0
            ELSE strncomp(Tail(a), Tail(b), n - 1, fold)

Min(a, b) == IF a < b THEN a ELSE b

StrLen(s) == IF s = NULL_STR THEN 0 ELSE Len(s)

\* git_path_is_dot_or_dotdotW
git_path_is_dot_or_dotdotW(name) == name = Dot \/ name = DotDot

\* a range test that compares the whole candidate path with the whole bound
InRange_WholeBound(buf, path_len, start, end, fold) ==
    LET p == SubSeq(buf, 1, path_len)
    IN /\ ~(StrLen(start) # 0 /\ strncomp(p, start, Len(p) + Len(start) + 1, fold) < 0)
       /\ ~(StrLen(end) # 0 /\ strncomp(p, end, Len(p) + Len(end) + 1, fold) > 0)

\* the two range tests of the loop: TRUE when the entry is kept
InRange(buf, path_len, start, end, fold) ==
    LET cmp_s == Min(StrLen(start), path_len)
        cmp_e == Min(StrLen(end), path_len)
    IN /\ ~(cmp_s # 0 /\ strncomp(buf, start, cmp_s, fold) < 0)
       /\ ~(cmp_e # 0 /\ strncomp(buf, end, cmp_e, fold) > 0)

\* strcmp / strcasecmp of two entry paths
PathCmp(a, b, fold) == strncomp(a, b, Len(a) + Len(b) + 1, fold)

\* git_vector_sort with the comparison of the caller's vector: stable, by path
RECURSIVE InsertSorted(_, _, _)
InsertSorted(sorted, e, fold) ==
    IF sorted = <<>> THEN <<e>>
    ELSE IF PathCmp(e.path, Head(sorted).path, fold) < 0
    THEN <<e>> \o sorted
    ELSE <<Head(sorted)>> \o InsertSorted(Tail(sorted), e, fold)

RECURSIVE git_vector_sort(_, _)
git_vector_sort(v, fold) ==
    IF v = <<>> THEN <<>>
    ELSE InsertSorted(git_vector_sort(SubSeq(v, 1, Len(v) - 1), fold), v[Len(v)], fold)

\* work_path before anything is stored in it
FreshWorkPath == [i \in 1..PATH__MAX_UNC_LEN |-> "?"]

\* memcpy(buf + off, bytes, Len(bytes)), all of it inside buf
Store(buf, off, bytes) ==
    [i \in 1..Len(buf) |->
        IF i - 1 >= off /\ i - 1 < off + Len(bytes) THEN bytes[i - off] ELSE buf[i]]

\* lines 369-372 on entry name `name`: the conversion into work_path behind
\* repo_path and the terminator stored after it.
\* [buf, path_len, inside]; inside = FALSE when the terminator's index is
\* not an index of work_path
ConvertName(buf, repo_len, name) ==
    LET c   == git__utf16_to_8(PATH__MAX_UNC_LEN - repo_len, name)
        idx == c.len + repo_len
        b1  == IF c.written > 0 THEN Store(buf, repo_len, c.b \o <<NUL>>) ELSE buf
    IN IF idx < 0 \/ idx >= PATH__MAX_UNC_LEN
       THEN [buf |-> b1, path_len |-> idx, inside |-> FALSE]
       ELSE [buf |-> Put(b1, idx, NUL), path_len |-> idx, inside |-> TRUE]

\* the records a directory can hold
PlainEntry(n) ==
    [name |-> n, isdir |-> FALSE, reparse |-> FALSE, link |-> NoLink]

DirEntryOf(n) ==
    [name |-> n, isdir |-> TRUE, reparse |-> FALSE, link |-> NoLink]

LinkEntry(n, d, l) ==
    [name |-> n, isdir |-> d, reparse |-> TRUE, link |-> l]

Symlink(t) ==
    [open |-> TRUE, ioctl |-> TRUE, tag |-> "IO_REPARSE_TAG_SYMLINK", target |-> t]

Links ==
    { [open |-> FALSE, ioctl |-> FALSE, tag |-> "none", target |-> <<>>],
      [open |-> TRUE, ioctl |-> FALSE, tag |-> "none", target |-> <<>>],
      [open |-> TRUE, ioctl |-> TRUE, tag |-> "IO_REPARSE_TAG_OTHER", target |-> <<>>],
      Symlink(VOLUME_PREFIX \o <<"a", "}">>),
      [open |-> TRUE, ioctl |-> TRUE, tag |-> "IO_REPARSE_TAG_MOUNT_POINT",
       target |-> <<"\\", "?", "?", "\\", "C", ":", "\\", "a">>],
      Symlink(<<>>),
      Symlink(Repeat("a", GIT_WIN_PATH_UTF16)),
      Symlink(<<"\\", "?", "?", "\\", "C", ":", "\\", "a">>),
      Symlink(<<"a", "uD800">>) }

Entries ==
    {PlainEntry(n) : n \in {Dot, DotDot, <<"a">>, <<"b">>, <<"B">>, <<"b", "b">>,
                            <<"e">>, <<"uD800">>,
                            Repeat("a", PATH__MAX_UNC_LEN)}}
    \cup {DirEntryOf(<<"c">>)}
    \cup {LinkEntry(<<"l">>, FALSE, l) : l \in Links}
    \cup {LinkEntry(<<"d">>, TRUE, Symlink(<<"a">>)),
          LinkEntry(<<"d">>, TRUE, NoLink)}

\* the directory of the specification's range filter example
ExampleListing ==
    <<PlainEntry(<<"a">>), PlainEntry(<<"b">>), PlainEntry(<<"c">>),
      PlainEntry(<<"d">>), PlainEntry(<<"e">>)>>

Listings ==
    UNION {[1..n -> Entries] : n \in 1..MaxEntries} \cup {ExampleListing}

RepoPaths ==
    { <<>>, <<"r", "/">>,
      Repeat("r", PATH__MAX_UNC_LEN - 1) \o <<"/">>,
      Repeat("r", PATH__MAX_UNC_LEN) \o <<"/">> }

Starts == {NULL_STR, <<"b">>, <<"b", "b">>}

Ends == {NULL_STR, <<"d">>, <<"b">>}

\* [repo, start, end, fold]: every repo_path without a range, every range
\* with an empty repo_path, and two ranges that begin with a repo_path
Calls ==
    {[repo |-> r, start |-> NULL_STR, end |-> NULL_STR, fold |-> FALSE] :
        r \in RepoPaths}
    \cup {[repo |-> <<>>, start |-> s, end |-> e, fold |-> f] :
            s \in Starts, e \in Ends, f \in BOOLEAN}
    \cup {[repo |-> <<"r", "/">>, start |-> <<"r", "/", "b">>, end |-> NULL_STR,
           fold |-> FALSE],
          [repo |-> <<"r", "/">>, start |-> NULL_STR, end |-> <<"r", "/", "b">>,
           fold |-> TRUE]}

InitDir ==
    /\ IdleCanon
    /\ IdleConv
    /\ overrun = {}
    /\ \E c \in Calls :
          /\ repo_path = c.repo
          /\ start_stat = c.start
          /\ end_stat = c.end
          /\ ignore_case = c.fold
    /\ \/ outcome \in {"parse_fail", "open_fail"} /\ listing = <<>>
       \/ outcome \in {"complete", "next_fail"} /\ listing \in Listings
    /\ dir = UninitDir
    /\ scan = 0
    /\ error = 0
    /\ contents = <<>>
    /\ work_path = FreshWorkPath
    /\ allocated = 0
    /\ freed = 0
    /\ unresolved = {}
    /\ acquired = <<>>
    /\ released = <<>>
    /\ dpc = "call"

dirInputs == <<repo_path, start_stat, end_stat, ignore_case, listing, outcome>>

\* lines 337-341: git_win32__findfirstfile_filter fails
DirParseFail ==
    /\ dpc = "call"
    /\ outcome = "parse_fail"
    /\ error' = -1
    /\ dpc' = "clean_up_and_exit"
    /\ UNCHANGED <<dir, scan, contents, work_path, allocated, freed, unresolved,
                   acquired, released, overrun, dirInputs, canonVars, convVars>>

\* lines 350-357: FindFirstFileExW returns INVALID_HANDLE_VALUE
DirOpenFail ==
    /\ dpc = "call"
    /\ outcome = "open_fail"
    /\ dir' = [ptr |-> "heap", h |-> INVALID_HANDLE_VALUE]
    /\ error' = -1
    /\ dpc' = "clean_up_and_exit"
    /\ UNCHANGED <<scan, contents, work_path, allocated, freed, unresolved,
                   acquired, released, overrun, dirInputs, canonVars, convVars>>

\* lines 350-365: the directory opens; repo_path is checked and copied
DirOpen ==
    /\ dpc = "call"
    /\ outcome \in {"complete", "next_fail"}
    /\ dir' = [ptr |-> "heap", h |-> FIND_HANDLE]
    /\ acquired' = Append(acquired, FIND_HANDLE)
    /\ IF Len(repo_path) > PATH__MAX_UNC_LEN
       THEN /\ error' = -1
            /\ dpc' = "clean_up_and_exit"
            /\ UNCHANGED <<work_path, scan>>
       ELSE /\ work_path' = Store(work_path, 0, repo_path)
            /\ scan' = 1
            /\ dpc' = "scan"
            /\ UNCHANGED error
    /\ UNCHANGED <<contents, allocated, freed, unresolved, released, overrun,
                   dirInputs, canonVars, convVars>>

\* lines 432-444: FindNextFileW after the entry at `scan`
FindNext ==
    IF scan < Len(listing)
    THEN scan' = scan + 1 /\ dpc' = "scan" /\ UNCHANGED error
    ELSE IF outcome = "next_fail"
    THEN scan' = scan /\ dpc' = "clean_up_and_exit" /\ error' = -1
    ELSE scan' = scan /\ dpc' = "sort" /\ UNCHANGED error

\* lines 378-427 for an entry that passed the range tests: the record built
\* from dir->f and the link resolution.
\* [keep, fail, ps, link]: keep = the record is inserted; fail = goto
\* clean_up_and_exit with error = -1
BuildRecord(e, buf, path_len, h) ==
    LET r     == IF e.reparse THEN git_win32_path_readlink_w(e.link, h)
                 ELSE [ret |-> -1, dest |-> <<>>, acquired |-> <<>>, released |-> <<>>]
        islnk == e.reparse /\ r.ret >= 0
        size  == IF islnk THEN git__utf16_to_8(0, r.dest).len ELSE 0
        mode  == IF islnk THEN "S_IFLNK" ELSE IF e.isdir THEN "S_IFDIR" ELSE "S_IFREG"
        p     == SubSeq(buf, 1, path_len)
    IN [fail |-> islnk /\ size < 0,
        ps   |-> [path |-> IF mode = "S_IFDIR" THEN p \o <<"/">> ELSE p,
                  st_mode |-> mode, st_size |-> size],
        link |-> r]

\* lines 367-444: one pass of while (dir) on the entry in dir->f
DirScan ==
    /\ dpc = "scan"
    /\ LET e == listing[scan]
       IN IF git_path_is_dot_or_dotdotW(e.name)
          THEN /\ FindNext
               /\ UNCHANGED <<contents, work_path, allocated, freed, unresolved,
                              acquired, released, overrun>>
          ELSE LET cv == ConvertName(work_path, Len(repo_path), e.name)
               IN IF ~cv.inside
                  THEN /\ overrun' = overrun \cup {"work_path"}
                       /\ dpc' = "undefined"
                       /\ work_path' = cv.buf
                       /\ UNCHANGED <<scan, error, contents, allocated, freed,
                                      unresolved, acquired, released>>
                  ELSE /\ work_path' = cv.buf
                       /\ UNCHANGED <<overrun, freed>>
                       /\ IF ~InRange(cv.buf, cv.path_len, start_stat, end_stat, ignore_case)
                          THEN /\ FindNext
                               /\ UNCHANGED <<contents, allocated, unresolved,
                                              acquired, released>>
                          ELSE LET b == BuildRecord(e, cv.buf, cv.path_len, <<"file", scan>>)
                               IN /\ allocated' = allocated + 1
                                  /\ acquired' = acquired \o b.link.acquired
                                  /\ released' = released \o b.link.released
                                  /\ unresolved' =
                                        IF e.reparse /\ b.link.ret < 0
                                        THEN unresolved \cup {scan} ELSE unresolved
                                  /\ IF b.fail
                                     THEN /\ error' = -1
                                          /\ dpc' = "clean_up_and_exit"
                                          /\ UNCHANGED <<scan, contents>>
                                     ELSE /\ contents' = Append(contents, b.ps)
                                          /\ FindNext
    /\ UNCHANGED <<dir, dirInputs, canonVars, convVars>>

\* lines 446-447: git_vector_sort(contents)
DirSort ==
    /\ dpc = "sort"
    /\ contents' = git_vector_sort(contents, ignore_case)
    /\ dpc' = "clean_up_and_exit"
    /\ UNCHANGED <<dir, scan, error, work_path, allocated, freed, unresolved,
                   acquired, released, overrun, dirInputs, canonVars, convVars>>

\* lines 449-456: if (dir) { FindClose(dir->h); free(dir); } return error.
\* dir is read uninitialized when the path did not parse: it may be NULL or
\* point anywhere.
DirCleanup ==
    /\ dpc = "clean_up_and_exit"
    /\ \/ /\ dir.ptr = "heap"
          /\ released' = Append(released, dir.h)
       \/ /\ dir.ptr = "uninit"
          /\ \/ released' = released
             \/ released' = Append(released, dir.h)
    /\ dpc' = "returned"
    /\ UNCHANGED <<dir, scan, error, contents, work_path, allocated, freed,
                   unresolved, acquired, overrun, dirInputs, canonVars, convVars>>

NextDir == DirParseFail \/ DirOpenFail \/ DirOpen \/ DirScan \/ DirSort \/ DirCleanup

SpecDir == InitDir /\ [][NextDir]_vars

---------------------------------------------------------------------------
(* Properties of the canonicalizer *)

\* s with every '/' respelled as '\\'
ToNative(s) == [i \in 1..Len(s) |-> IF s[i] = "/" THEN "\\" ELSE s[i]]

IsPrefixOf(s, t) == Len(s) <= Len(t) /\ SubSeq(t, 1, Len(s)) = s

\* the segments of s: the pieces between separators
RECURSIVE SegmentsOf(_, _)
SegmentsOf(s, cur) ==
    IF s = <<>> THEN <<cur>>
    ELSE IF path__is_dirsep(Head(s)) THEN <<cur>> \o SegmentsOf(Tail(s), <<>>)
    ELSE SegmentsOf(Tail(s), Append(cur, Head(s)))

\* C1: canonicalizing the output of git_win32_path_canonicalize again leaves
\* the buffer contents and the returned length unchanged.
C1_Idempotent ==
    (pc = "done" /\ pass = 2) => (CStr(path) = first.str /\ ret = first.len)

\* a second call has finished on a path the first call had to shorten
C1_Witness ==
    /\ pc = "done" /\ pass = 2
    /\ root > 0
    /\ first.len > root
    /\ first.len + 3 <= Len(input)

\* C2: at every step the write cursor is at or after the root boundary that
\* path__skip_prefix returned (base <= to), the returned length is at least
\* that boundary, and before the boundary only '/' -> '\\' has changed.
C2_RootBoundary ==
    /\ pc \in {"loop", "done"} =>
          /\ base <= to
          /\ root <= to
          /\ \A i \in 0..(root - 1) :
                At(path, i) = (IF At(entry, i) = "/" THEN "\\" ELSE At(entry, i))
    /\ pc = "done" => ret >= root

\* a ".." has backed the write cursor up to a non-zero root boundary
C2_Witness ==
    /\ pc = "loop"
    /\ root > 0
    /\ to = root
    /\ from >= root + 4
    /\ At(entry, root) = "a"
    /\ \E i \in root..(from - 2) : At(entry, i) = "." /\ At(entry, i + 1) = "."

\* the UNC prefix forms of the inputs: \\server\ and \\?\UNC\server\
UncPrefixes ==
    { <<"\\", "\\", "s", "\\">>,
      <<"\\", "\\", "?", "\\", "U", "N", "C", "\\", "s", "\\">> }

\* C3: for \\server\share\rest and \\?\UNC\server\share\rest the result still
\* begins with the same server and share, whatever ".." segments rest holds.
C3_UncRootKept ==
    \A pre \in UncPrefixes :
        (/\ pc = "done" /\ pass = 1
         /\ IsPrefixOf(pre \o <<"a", "\\">>, ToNative(input)))
        => IsPrefixOf(pre \o <<"a">>, CStr(path))

\* the collapse the claim describes, on segments: "." deleted, ".." erases the
\* segment before it or is absorbed when none is left
RECURSIVE Collapse(_, _)
Collapse(segs, kept) ==
    IF segs = <<>> THEN kept
    ELSE LET s == Head(segs)
         IN IF s = <<>> \/ s = Dot THEN Collapse(Tail(segs), kept)
            ELSE IF s = DotDot
            THEN Collapse(Tail(segs),
                          IF kept = <<>> THEN kept
                          ELSE SubSeq(kept, 1, Len(kept) - 1))
            ELSE Collapse(Tail(segs), Append(kept, s))

RECURSIVE JoinSegs(_)
JoinSegs(segs) ==
    IF segs = <<>> THEN <<>>
    ELSE IF Len(segs) = 1 THEN Head(segs)
    ELSE Head(segs) \o <<"\\">> \o JoinSegs(Tail(segs))

\* what the claim says a rooted or relative path (no drive, no UNC, no
\* namespace marker) collapses to: the leading root separator is kept
CollapsedKeepingRoot(s) ==
    (IF s # <<>> /\ path__is_dirsep(Head(s)) THEN <<"\\">> ELSE <<>>)
        \o JoinSegs(Collapse(SegmentsOf(s, <<>>), <<>>))

\* C4: "a/./b/../c" gives "a\c" and "/a/../../b" gives "\b"; in general "."
\* is deleted, ".." erases the segment before it, a ".." above the root is
\* absorbed and the leading root separator is kept.
C4_SegmentCollapse ==
    (/\ pc = "done" /\ pass = 1 /\ root = 0 /\ ~path__is_unc(entry, 0)
     /\ Collapse(SegmentsOf(input, <<>>), <<>>) # <<>>)
        => CStr(path) = CollapsedKeepingRoot(input)

\* the part of a finished buffer after the root boundary
AfterRoot == SubSeq(CStr(path), root + 1, ret)

NoDotSegments(s) ==
    \A k \in 1..Len(SegmentsOf(s, <<>>)) :
        SegmentsOf(s, <<>>)[k] \notin {Dot, DotDot}

NoSeparatorRun(s) ==
    \A i \in 1..(Len(s) - 1) : ~(path__is_dirsep(s[i]) /\ path__is_dirsep(s[i + 1]))

\* C5 as stated: the buffer is NUL-terminated at the returned length, its
\* last character is not a separator, and after the root boundary there is
\* no "." segment, no ".." segment and no run of separators.
C5_AsStated ==
    pc = "done" =>
        /\ At(path, ret) = NUL
        /\ Len(CStr(path)) = ret
        /\ (ret > 0 => ~path__is_dirsep(At(path, ret - 1)))
        /\ NoDotSegments(AfterRoot)
        /\ NoSeparatorRun(AfterRoot)

\* C5, amended: the last character is not a separator unless the result ends
\* exactly at the root boundary (the bare prefix, such as C:\, keeps its
\* separator); the rest as stated.
C5_Canonical ==
    pc = "done" =>
        /\ At(path, ret) = NUL
        /\ Len(CStr(path)) = ret
        /\ (ret > root => ~path__is_dirsep(At(path, ret - 1)))
        /\ (ret > root => ~path__is_dirsep(At(path, root)))
        /\ NoDotSegments(AfterRoot)
        /\ NoSeparatorRun(AfterRoot)

\* a call has finished on a prefixed path that had ".", ".." and doubled or
\* trailing separators to remove and kept something after the root boundary
C5_Witness ==
    /\ pc = "done" /\ pass = 1
    /\ root > 0
    /\ ret > root
    /\ ret + 3 <= Len(input)
    /\ path__is_dirsep(input[Len(input)])

\* C6: two paths that differ only in the spelling of their separators
\* canonicalize to the same result: a path and its all-backslash spelling do.
C6_SeparatorIndependent ==
    (pc = "done" /\ pass = 1) =>
        LET r == git_win32_path_canonicalize(ToNative(input) \o <<NUL>>)
        IN CStr(path) = CStr(r.path) /\ ret = r.len

---------------------------------------------------------------------------
(* Properties of the conversions *)

\* where the root prefix of a text path ends: drive, namespace marker (and
\* the drive after it), "//server/", a lone leading separator, or nothing
TextRoot(t) ==
    LET s == t \o <<NUL>>
    IN IF path__is_absolute(s, 0) THEN 3
       ELSE IF path__is_nt_namespace(s, 0)
       THEN IF path__is_absolute(s, 4) THEN 7 ELSE 4
       ELSE IF path__is_unc(s, 0) THEN path__skip_server(s, 2)
       ELSE IF path__is_dirsep(At(s, 0)) THEN 1
       ELSE 0

\* no "." or ".." segment and no redundant separator after the root prefix:
\* what follows the prefix is empty or is names joined by single separators
CleanText(t) ==
    LET rest == SubSeq(t, TextRoot(t) + 1, Len(t))
        segs == SegmentsOf(rest, <<>>)
    IN rest = <<>> \/ \A k \in 1..Len(segs) : segs[k] \notin {<<>>, Dot, DotDot}

IsDriveText(t) == path__is_absolute(t \o <<NUL>>, 0)

IsUncText(t) ==
    /\ ~path__is_absolute(t \o <<NUL>>, 0)
    /\ ~path__is_nt_namespace(t \o <<NUL>>, 0)
    /\ path__is_unc(t \o <<NUL>>, 0)

RoundTripped == cpc = "back" /\ origin = "text"

\* C7 as stated: a clean text path of any prefix form comes back from
\* git_win32_path_to_utf8(git_win32_path_from_utf8(t)) as t with '/'.
C7_AsStated ==
    (RoundTripped /\ CleanText(text) /\ text # <<>>)
        => utf8.out = git_path_mkposix(text)

\* C7, amended: the round trip returns t (separators as '/') for a clean
\* drive-absolute or UNC text path; the other forms come back fully
\* qualified and without the namespace marker.
C7_RoundTrip ==
    (RoundTripped /\ CleanText(text) /\ (IsDriveText(text) \/ IsUncText(text)))
        => (utf8.ret >= 0 /\ utf8.out = git_path_mkposix(text))

\* a UNC text with backslashes and a two-byte character made the round trip
C7_Witness ==
    /\ RoundTripped /\ CleanText(text) /\ IsUncText(text)
    /\ Len(text) >= 7
    /\ \E i \in 1..Len(text) : text[i] = "xC3"
    /\ text # git_path_mkposix(text)
    /\ utf8.out = git_path_mkposix(text)

\* C8: no path buffer is written at or beyond its capacity: every write is
\* preceded by a capacity check that accounts for the offset it starts at.
C8_NoOverrun == overrun = {}

---------------------------------------------------------------------------
(* Properties of the directory lister *)

Count(seq, x) == Cardinality({i \in 1..Len(seq) : seq[i] = x})

\* C9: when the link of a reparse-tagged entry does not resolve, the listing
\* returns an error; it never returns success with such an entry in it.
C9_UnresolvedLinkFails ==
    (dpc = "returned" /\ unresolved # {}) => error # 0

\* C10: when the call returns, every handle that was acquired has been
\* released exactly once, and nothing was released that was not acquired.
C10_HandleHygiene ==
    dpc = "returned" =>
        /\ \A i \in 1..Len(acquired) : Count(released, acquired[i]) = 1
        /\ \A i \in 1..Len(released) : Count(acquired, released[i]) = 1

\* C11: when the listing returns an error after entries were scanned, every
\* entry record allocated during the scan has been freed and none of them is
\* left in the caller's collection.
C11_PartialUnwound ==
    (dpc = "returned" /\ error # 0 /\ allocated > 0) =>
        /\ freed = allocated
        /\ contents = <<>>

\* the candidate path of listing[i]: repo_path followed by the entry's name
CandidatePath(i) ==
    repo_path \o git__utf16_to_8(PATH__MAX_UNC_LEN - Len(repo_path), listing[i].name).b

\* every name of the directory converts into the space behind repo_path
NamesConvert ==
    \A i \in 1..Len(listing) :
        \/ git_path_is_dot_or_dotdotW(listing[i].name)
        \/ git__utf16_to_8(PATH__MAX_UNC_LEN - Len(repo_path), listing[i].name).len >= 0

\* a returned path without the separator appended to a directory's path
WithoutDirSuffix(p) ==
    IF Len(p) > Len(repo_path) /\ p[Len(p)] = "/" THEN SubSeq(p, 1, Len(p) - 1) ELSE p

\* p is not lexicographically before start and not after end
WithinBounds(p) ==
    /\ start_stat = NULL_STR \/ PathCmp(p, start_stat, ignore_case) >= 0
    /\ end_stat = NULL_STR \/ PathCmp(p, end_stat, ignore_case) <= 0

\* p is not before start and not after end on the characters both have
WithinBoundsOnCommonLength(p) ==
    /\ \/ Min(StrLen(start_stat), Len(p)) = 0
       \/ strncomp(p, start_stat, Min(StrLen(start_stat), Len(p)), ignore_case) >= 0
    /\ \/ Min(StrLen(end_stat), Len(p)) = 0
       \/ strncomp(p, end_stat, Min(StrLen(end_stat), Len(p)), ignore_case) <= 0

\* contents holds, as often as the directory does, exactly the non-dot
\* entries whose candidate path satisfies Keep
ReturnsExactly(Keep(_)) ==
    LET want  == {i \in 1..Len(listing) :
                     /\ ~git_path_is_dot_or_dotdotW(listing[i].name)
                     /\ Keep(CandidatePath(i))}
        got   == 1..Len(contents)
        paths == {CandidatePath(i) : i \in want}
                 \cup {WithoutDirSuffix(contents[k].path) : k \in got}
    IN \A p \in paths :
          Cardinality({i \in want : CandidatePath(i) = p})
              = Cardinality({k \in got : WithoutDirSuffix(contents[k].path) = p})

SortedByPath ==
    \A i, j \in 1..Len(contents) :
        i < j => PathCmp(contents[i].path, contents[j].path, ignore_case) <= 0

ListedAll == dpc = "returned" /\ error = 0 /\ NamesConvert

====
